---- MODULE Spec2Model ----
(***************************************************************************)
(* Model of the memory API (People, Categories, Memories, Groups) over a   *)
(* document store: src/app/routers/{pessoa,categoria,memoria,grupo}.py and *)
(* src/app/models/*.py.                                                    *)
(*                                                                         *)
(* Every handler is one atomic action (one request at a time); the        *)
(* handlers whose interleavings are studied are also given split at their  *)
(* awaits, with pend holding the local variables of each client's request  *)
(* in flight.  Documents are records, collections are sequences in natural *)
(* (insertion) order.                                                      *)
(* Strings that the code inspects character by character (raw path         *)
(* identifiers, names) are sequences of one-character strings.  A store    *)
(* assigned ObjectId is a natural number; str(oid) and ObjectId(str) are   *)
(* the conversions OidStr and ParseOid.                                    *)
(*                                                                         *)
(* Shapes of the stored documents (each is fixed by the handler that       *)
(* writes it):                                                             *)
(*   pessoas    [id, nome, data_nascimento, memorias]   models/pessoa.py   *)
(*   memorias   [id, titulo, categoria, pessoa]         models/memoria.py  *)
(*              categoria and pessoa are EMBEDDED copies of the documents  *)
(*              the client sent (Optional[Categoria], Optional[Pessoa]),   *)
(*              not links; descricao, data and emocao are never read by a  *)
(*              decision and are left out.                                 *)
(*   categorias [_id, id, categoria_id, nome]   routers/categoria.py: the  *)
(*              dict of the request body plus the store-assigned _id       *)
(*   grupos     [id, nome, pessoas]  with pessoas a list of PessoaRef      *)
(*              [id (a str), nome, memorias]            models/grupo.py    *)
(*                                                                         *)
(* The store is taken as the models declare it: each Document lives in the *)
(* collection its Settings names, so Categoria.get and db.categorias read  *)
(* the same documents, the unique indexes of the models hold on them, and  *)
(* get_database (routers/categoria.py) yields the db of database.py.       *)
(***************************************************************************)
EXTENDS Integers, Sequences, FiniteSets, TLC

VARIABLES pessoas, memorias, categorias, grupos, nextId, last, resp, pend

vars == <<pessoas, memorias, categorias, grupos, nextId, last, resp, pend>>

store == <<pessoas, memorias, categorias, grupos>>

-----------------------------------------------------------------------------
(* Bounds and input alphabets *)

\* Number of ObjectIds the store hands out in one run.
MaxIds == 3

\* Length of the textual form of an ObjectId.
OidLen == 24

\* Shortest category name the handlers accept.
MinNomeLen == 3

\* Default page size of listar_pessoas.
DefaultLimit == 10

DigitChars == {"0", "1", "2", "3", "4", "5", "6", "7", "8", "9"}

HexChars == DigitChars \cup {"a", "b", "c", "d", "e", "f", "A", "B", "C", "D", "E", "F"}

HexDigits == <<"0", "1", "2", "3", "4", "5", "6", "7", "8", "9", "a", "b", "c", "d", "e", "f">>

\* Names a client sends for a Person.
NomesPessoa == {<<"A", "n", "a">>, <<"a", "n", "a">>}

\* Names a client sends for a Category; the last one is too short.
NomesCategoria == {<<"V", "i", "a">>, <<"v", "i", "a">>, <<"V", "i">>}

\* Names a client sends for a Group.
NomesGrupo == {<<"F", "a", "m">>}

\* Numeric category identifiers a client sends.
CategoriaIds == {1, 5}

Titulos == {"t1", "t2"}

Datas == {1990}

-----------------------------------------------------------------------------
(* Strings and identifiers *)

Min(a, b) == IF a < b THEN a ELSE b

\* value of one hexadecimal character
HexCharVal(c) ==
    CASE c = "0" -> 0 [] c = "1" -> 1 [] c = "2" -> 2 [] c = "3" -> 3 [] c = "4" -> 4
      [] c = "5" -> 5 [] c = "6" -> 6 [] c = "7" -> 7 [] c = "8" -> 8 [] c = "9" -> 9
      [] c \in {"a", "A"} -> 10
      [] c \in {"b", "B"} -> 11
      [] c \in {"c", "C"} -> 12
      [] c \in {"d", "D"} -> 13
      [] c \in {"e", "E"} -> 14
      [] c \in {"f", "F"} -> 15

\* str.lower() on one character of the alphabet used here
LowerChar(c) ==
    CASE c = "A" -> "a"
      [] c = "B" -> "b"
      [] c = "F" -> "f"
      [] c = "V" -> "v"
      [] OTHER -> c

\* case folding of a string, as the "i" option of a $regex match compares
Lower(s) == [i \in DOMAIN s |-> LowerChar(s[i])]

\* the texts of the ObjectIds 0..15: 24 lowercase hexadecimal characters
OidTexts == [n \in 0..15 |-> [i \in 1..OidLen |-> IF i = OidLen THEN HexDigits[n + 1] ELSE "0"]]

\* str(ObjectId)
OidStr(n) == OidTexts[n % 16]

\* bson.ObjectId.is_valid / PydanticObjectId(raw) not raising
ObjectIdIsValid(raw) == Len(raw) = OidLen /\ \A i \in 1..Len(raw) : raw[i] \in HexChars

RECURSIVE HexVal(_, _)
\* value of the first n characters of s read as a hexadecimal number
HexVal(s, n) == IF n = 0 THEN 0 ELSE 16 * HexVal(s, n - 1) + HexCharVal(s[n])

\* ObjectId(raw) of a valid raw string
ParseOid(raw) == HexVal(raw, Len(raw))

\* str.isdigit()
IsDigit(raw) == Len(raw) > 0 /\ \A i \in 1..Len(raw) : raw[i] \in DigitChars

RECURSIVE DecVal(_, _)
\* value of the first n characters of s read as a decimal number
DecVal(s, n) == IF n = 0 THEN 0 ELSE 10 * DecVal(s, n - 1) + HexCharVal(s[n])

\* int(raw) of a string of digits
StrToInt(s) == DecVal(s, Len(s))

\* decimal text of a small number
IntStr(n) == IF n < 10 THEN <<HexDigits[n + 1]>> ELSE <<HexDigits[(n \div 10) + 1], HexDigits[(n % 10) + 1]>>

-----------------------------------------------------------------------------
(* Sequences as collections *)

\* index of the first element of seq satisfying Test, 0 when there is none
FirstIdx(seq, Test(_)) ==
    LET hits == {i \in 1..Len(seq) : Test(seq[i])}
    IN  IF hits = {} THEN 0 ELSE CHOOSE i \in hits : \A j \in hits : i <= j

\* seq without its i-th element
RemoveAt(seq, i) == SubSeq(seq, 1, i - 1) \o SubSeq(seq, i + 1, Len(seq))

\* the id of the document at position i of col, 0 for position 0 (None)
IdDe(col, i) == IF i = 0 THEN 0 ELSE col[i].id

\* the value of Optional[...] = None for an embedded document
None == [id |-> 0]

-----------------------------------------------------------------------------
(* The request just served: handler, HTTP status, the inputs the claims    *)
(* read, the id of the entity the identifier resolved to (0: none) and,    *)
(* on a route with two identifiers, the id the second one resolved to.     *)

Served(op, status, req, id, pid) ==
    [op |-> op, status |-> status, req |-> req, id |-> id, pid |-> pid]

\* Clients that can have a request in flight at the same time.
Clientes == {1, 2}

\* the state of a client with no request in flight
Idle == [op |-> "idle"]

Init ==
    /\ pessoas = <<>>
    /\ memorias = <<>>
    /\ categorias = <<>>
    /\ grupos = <<>>
    /\ nextId = 1
    /\ last = Served("init", 0, <<>>, 0, 0)
    /\ resp = <<>>
    /\ pend = [c \in Clientes |-> Idle]

\* an id the store never hands out in a run
GhostId == MaxIds + 1

\* raw ObjectIds a client puts in a path: the ids of the stored documents of
\* the collection, and one that is in no collection
RawOids(col) == {OidStr(col[i].id) : i \in 1..Len(col)} \cup {OidStr(GhostId)}

-----------------------------------------------------------------------------
(* routers/pessoa.py *)

\* Pessoa.get(oid): position of the stored Person, 0 for None
PessoaGet(oid) == FirstIdx(pessoas, LAMBDA p : p.id = oid)

\* mutant: the name is compared without regard to letter case
PessoaFindOneNomeSemCaixa(nome) == FirstIdx(pessoas, LAMBDA p : Lower(p.nome) = Lower(nome))

\* Pessoa.find_one(Pessoa.nome == nome): exact, case-sensitive
PessoaFindOneNome(nome) == FirstIdx(pessoas, LAMBDA p : p.nome = nome)

\* try: Pessoa.get(PydanticObjectId(identificador))
\* except: Pessoa.find_one(Pessoa.nome == identificador)
ResolvePessoa(raw) ==
    IF ObjectIdIsValid(raw) THEN LET oid == ParseOid(raw) IN PessoaGet(oid)
    ELSE PessoaFindOneNome(raw)

\* Memoria.find(Memoria.pessoa == pessoa): the query value is the whole
\* encoded Person document, so a Memory matches when its embedded copy
\* equals the document field by field
MemoriaFindPessoa(p) == SelectSeq(memorias, LAMBDA m : m.pessoa = p)

\* [m.titulo for m in ms]
TitulosDe(ms) == [i \in 1..Len(ms) |-> ms[i].titulo]

\* mutant: the collection has no unique index on nome
PessoaNomeDuplicadoSemIndice(nome, i) == FALSE

\* the unique index on Pessoa.nome refuses the write of doc at position i
\* (i = 0: an insert)
PessoaNomeDuplicado(nome, i) ==
    \E j \in 1..Len(pessoas) : j # i /\ pessoas[j].nome = nome

PessoaRawIds == RawOids(pessoas) \cup NomesPessoa

criar_pessoa(nome, nasc) ==
    /\ resp' = <<>>
    /\ IF PessoaFindOneNome(nome) # 0
       THEN /\ last' = Served("criar_pessoa", 400, <<nome>>, 0, 0)
            /\ UNCHANGED <<store, nextId>>
       ELSE /\ nextId <= MaxIds
            /\ pessoas' = Append(pessoas,
                   [id |-> nextId, nome |-> nome, data_nascimento |-> nasc, memorias |-> <<>>])
            /\ nextId' = nextId + 1
            /\ last' = Served("criar_pessoa", 200, <<nome>>, nextId, 0)
            /\ UNCHANGED <<memorias, categorias, grupos>>

\* one Person as the handlers return it: memorias recomputed from the store
PessoaComMemorias(p) == [p EXCEPT !.memorias = TitulosDe(MemoriaFindPessoa(p))]

listar_pessoas(limit, skip) ==
    /\ LET pagina == SubSeq(pessoas, skip + 1, Min(Len(pessoas), skip + limit))
       IN  resp' = [i \in 1..Len(pagina) |-> PessoaComMemorias(pagina[i])]
    /\ last' = Served("listar_pessoas", 200, <<>>, 0, 0)
    /\ UNCHANGED <<store, nextId>>

obter_pessoa(raw) ==
    /\ LET i == ResolvePessoa(raw)
       IN  IF i = 0
           THEN /\ last' = Served("obter_pessoa", 404, <<raw>>, 0, 0)
                /\ resp' = <<>>
           ELSE /\ last' = Served("obter_pessoa", 200, <<raw>>, pessoas[i].id, 0)
                /\ resp' = <<PessoaComMemorias(pessoas[i])>>
    /\ UNCHANGED <<store, nextId>>

atualizar_pessoa(raw, nome, nasc) ==
    /\ resp' = <<>>
    /\ LET i == ResolvePessoa(raw)
       IN  IF i = 0
           THEN /\ last' = Served("atualizar_pessoa", 404, <<nome>>, 0, 0)
                /\ UNCHANGED store
           ELSE IF PessoaNomeDuplicado(nome, i)
           THEN \* save() fails on the unique index: the error is not handled
                /\ last' = Served("atualizar_pessoa", 500, <<nome>>, pessoas[i].id, 0)
                /\ UNCHANGED store
           ELSE /\ pessoas' = [pessoas EXCEPT ![i].nome = nome, ![i].data_nascimento = nasc]
                /\ last' = Served("atualizar_pessoa", 200, <<nome>>, pessoas[i].id, 0)
                /\ UNCHANGED <<memorias, categorias, grupos>>
    /\ UNCHANGED nextId

excluir_pessoa(raw) ==
    /\ resp' = <<>>
    /\ LET i == ResolvePessoa(raw)
       IN  IF i = 0
           THEN /\ last' = Served("excluir_pessoa", 404, <<>>, 0, 0)
                /\ UNCHANGED store
           ELSE /\ memorias' = SelectSeq(memorias, LAMBDA m : m.pessoa # pessoas[i])
                /\ pessoas' = RemoveAt(pessoas, i)
                /\ last' = Served("excluir_pessoa", 200, <<>>, pessoas[i].id, 0)
                /\ UNCHANGED <<categorias, grupos>>
    /\ UNCHANGED nextId

-----------------------------------------------------------------------------
(* routers/memoria.py *)

\* Categoria.get(oid): position of the stored Category, 0 for None
CategoriaGet(oid) == FirstIdx(categorias, LAMBDA c : c._id = oid)

\* Memoria.get(oid)
MemoriaGet(oid) == FirstIdx(memorias, LAMBDA m : m.id = oid)

\* Person documents a client embeds in a Memory body: a stored Person as
\* the API returned it, or a document whose id is no stored Person
PessoaBodies ==
    {pessoas[i] : i \in 1..Len(pessoas)}
        \cup {[id |-> GhostId, nome |-> <<"B", "e", "l">>, data_nascimento |-> 1990, memorias |-> <<>>]}

\* Category documents a client embeds in a Memory body (models/categoria.py)
CategoriaBodies ==
    {[id |-> categorias[i]._id, categoria_id |-> categorias[i].categoria_id, nome |-> categorias[i].nome]
        : i \in 1..Len(categorias)}
        \cup {[id |-> GhostId, categoria_id |-> 1, nome |-> <<"V", "i", "a">>]}

\* mutant: the existence of the category is not checked
criar_memoria_sem_categoria(titulo, pessoa, categoria) ==
    /\ resp' = <<>>
    /\ IF pessoa # None /\ PessoaGet(pessoa.id) = 0
       THEN /\ last' = Served("criar_memoria", 400, <<pessoa.id, categoria.id>>, 0, 0)
            /\ UNCHANGED <<store, nextId>>
       ELSE /\ nextId <= MaxIds
            /\ memorias' = Append(memorias,
                   [id |-> nextId, titulo |-> titulo, categoria |-> categoria, pessoa |-> pessoa])
            /\ nextId' = nextId + 1
            /\ last' = Served("criar_memoria", 200, <<pessoa.id, categoria.id>>, nextId, 0)
            /\ UNCHANGED <<pessoas, categorias, grupos>>

criar_memoria(titulo, pessoa, categoria) ==
    /\ resp' = <<>>
    /\ IF pessoa # None /\ PessoaGet(pessoa.id) = 0
       THEN /\ last' = Served("criar_memoria", 400, <<pessoa.id, categoria.id>>, 0, 0)
            /\ UNCHANGED <<store, nextId>>
       ELSE IF categoria # None /\ CategoriaGet(categoria.id) = 0
       THEN /\ last' = Served("criar_memoria", 400, <<pessoa.id, categoria.id>>, 0, 0)
            /\ UNCHANGED <<store, nextId>>
       ELSE /\ nextId <= MaxIds
            /\ memorias' = Append(memorias,
                   [id |-> nextId, titulo |-> titulo, categoria |-> categoria, pessoa |-> pessoa])
            /\ nextId' = nextId + 1
            /\ last' = Served("criar_memoria", 200, <<pessoa.id, categoria.id>>, nextId, 0)
            /\ UNCHANGED <<pessoas, categorias, grupos>>

atualizar_memoria(raw, titulo, pessoa, categoria) ==
    /\ resp' = <<>>
    /\ LET i == IF ObjectIdIsValid(raw) THEN MemoriaGet(ParseOid(raw)) ELSE 0
       IN  IF ~ObjectIdIsValid(raw)
           THEN \* PydanticObjectId(id) raises, nothing catches it
                /\ last' = Served("atualizar_memoria", 500, <<>>, 0, 0)
                /\ UNCHANGED store
           ELSE IF i = 0
           THEN /\ last' = Served("atualizar_memoria", 404, <<>>, 0, 0)
                /\ UNCHANGED store
           ELSE /\ memorias' = [memorias EXCEPT ![i].titulo = titulo,
                                                ![i].categoria = categoria,
                                                ![i].pessoa = pessoa]
                /\ last' = Served("atualizar_memoria", 200, <<>>, memorias[i].id, 0)
                /\ UNCHANGED <<pessoas, categorias, grupos>>
    /\ UNCHANGED nextId

excluir_memoria(raw) ==
    /\ resp' = <<>>
    /\ LET i == IF ObjectIdIsValid(raw) THEN MemoriaGet(ParseOid(raw)) ELSE 0
       IN  IF ~ObjectIdIsValid(raw)
           THEN /\ last' = Served("excluir_memoria", 500, <<>>, 0, 0)
                /\ UNCHANGED store
           ELSE IF i = 0
           THEN /\ last' = Served("excluir_memoria", 404, <<>>, 0, 0)
                /\ UNCHANGED store
           ELSE /\ memorias' = RemoveAt(memorias, i)
                /\ last' = Served("excluir_memoria", 200, <<>>, memorias[i].id, 0)
                /\ UNCHANGED <<pessoas, categorias, grupos>>
    /\ UNCHANGED nextId

\* Pessoa.find_one({"nome": {"$regex": "^raw$", "$options": "i"}}) for a
\* raw string of letters: the whole name, compared without letter case
PessoaFindOneRegex(raw) == FirstIdx(pessoas, LAMBDA p : Lower(p.nome) = Lower(raw))

listar_memorias_por_pessoa(raw) ==
    /\ IF Len(raw) = OidLen /\ ~ObjectIdIsValid(raw)
       THEN \* PydanticObjectId(identificador) raises, nothing catches it
            /\ last' = Served("listar_memorias_por_pessoa", 500, <<raw>>, 0, 0)
            /\ resp' = <<>>
       ELSE LET i == IF Len(raw) = OidLen THEN PessoaGet(ParseOid(raw))
                     ELSE PessoaFindOneRegex(raw)
                ms == IF i = 0 THEN <<>> ELSE MemoriaFindPessoa(pessoas[i])
            IN  IF i = 0
                THEN /\ last' = Served("listar_memorias_por_pessoa", 404, <<raw>>, 0, 0)
                     /\ resp' = <<>>
                ELSE IF ms = <<>>
                THEN /\ last' = Served("listar_memorias_por_pessoa", 404, <<raw>>, pessoas[i].id, 0)
                     /\ resp' = <<>>
                ELSE /\ last' = Served("listar_memorias_por_pessoa", 200, <<raw>>, pessoas[i].id, 0)
                     /\ resp' = ms
    /\ UNCHANGED <<store, nextId>>

-----------------------------------------------------------------------------
(* routers/categoria.py *)
(* The handlers work on the raw collections with the dict of the request   *)
(* body, Categoria.model_dump().  Its keys are the fields of the model:    *)
(* `id` (the document id of beanie.Document: None unless the client sends  *)
(* one, never a number), `categoria_id` (the numeric identifier the user   *)
(* chooses) and `nome`.  insert_one adds the store-assigned `_id`.         *)

\* BSON values of a field that holds values of several types
Null == <<"null">>

OidVal(n) == <<"oid", n>>

IntVal(n) == <<"int", n>>

\* equality match of a filter dict against a document; a filter value of
\* null also matches a document that lacks the field
Matches(doc, filtro) ==
    \A f \in DOMAIN filtro :
        IF f \in DOMAIN doc THEN doc[f] = filtro[f] ELSE filtro[f] = Null

\* the filter dict the handlers build from the raw identifier; the empty
\* dict when the identifier is neither an ObjectId nor a number
CategoriaFiltro(raw) ==
    IF ObjectIdIsValid(raw) THEN [_id |-> ParseOid(raw)]
    ELSE IF IsDigit(raw) THEN [id |-> IntVal(StrToInt(raw))]
    ELSE <<>>

\* db.categorias.find_one(filtro): position of the first match, 0 for None
CategoriaFindOne(filtro) == FirstIdx(categorias, LAMBDA c : Matches(c, filtro))

\* db.memorias.find({"categoria_id": v}): the Memories whose top-level
\* field categoria_id equals v
MemoriasAssociadas(v) == SelectSeq(memorias, LAMBDA m : Matches(m, [categoria_id |-> v]))

\* mutant: the collection has no unique index on categoria_id
CategoriaIdDuplicadoSemIndice(cid, i) == FALSE

\* the unique index of categoria_id (models/categoria.py) refuses the
\* value for the document at position i (0: a new document)
CategoriaIdDuplicado(cid, i) ==
    \E k \in 1..Len(categorias) : k # i /\ categorias[k].categoria_id = cid

\* raw identifiers a client puts in a category path
CategoriaRawIds ==
    {OidStr(categorias[i]._id) : i \in 1..Len(categorias)} \cup {OidStr(GhostId)}
        \cup {IntStr(n) : n \in CategoriaIds} \cup {<<"V", "i", "a">>}

\* request bodies of criar_categoria: with or without a document id
CategoriaCorpos ==
    [id : {Null, OidVal(GhostId)}, categoria_id : CategoriaIds, nome : NomesCategoria]

\* request bodies of atualizar_categoria, as model_dump(exclude_unset=True)
\* of a body that sets the two required fields
CategoriaUpdates == [categoria_id : CategoriaIds, nome : NomesCategoria]

criar_categoria(categoria) ==
    /\ resp' = <<>>
    /\ IF CategoriaFindOne([id |-> categoria.id]) # 0
       THEN /\ last' = Served("criar_categoria", 400, <<categoria.categoria_id, categoria.nome>>, 0, 0)
            /\ UNCHANGED <<store, nextId>>
       ELSE IF Len(categoria.nome) < MinNomeLen
       THEN /\ last' = Served("criar_categoria", 422, <<categoria.categoria_id, categoria.nome>>, 0, 0)
            /\ UNCHANGED <<store, nextId>>
       ELSE IF CategoriaIdDuplicado(categoria.categoria_id, 0)
       THEN \* insert_one fails on the unique index, nothing catches it
            /\ last' = Served("criar_categoria", 500, <<categoria.categoria_id, categoria.nome>>, 0, 0)
            /\ UNCHANGED <<store, nextId>>
       ELSE /\ nextId <= MaxIds
            /\ categorias' = Append(categorias,
                   [_id |-> nextId, id |-> categoria.id,
                    categoria_id |-> categoria.categoria_id, nome |-> categoria.nome])
            /\ nextId' = nextId + 1
            /\ last' = Served("criar_categoria", 200, <<categoria.categoria_id, categoria.nome>>, nextId, 0)
            /\ UNCHANGED <<pessoas, memorias, grupos>>

obter_categoria(raw) ==
    /\ LET filtro == CategoriaFiltro(raw)
           i == IF DOMAIN filtro = {} THEN 0 ELSE CategoriaFindOne(filtro)
       IN  IF i = 0
           THEN /\ last' = Served("obter_categoria", 404, <<raw>>, 0, 0)
                /\ resp' = <<>>
           ELSE /\ last' = Served("obter_categoria", 200, <<raw>>, categorias[i]._id, 0)
                /\ resp' = <<[_id |-> OidStr(categorias[i]._id),
                              id |-> categorias[i].id,
                              categoria_id |-> categorias[i].categoria_id,
                              nome |-> categorias[i].nome,
                              memorias |-> LET ms == MemoriasAssociadas(categorias[i].id)
                                           IN  [k \in 1..Len(ms) |-> OidStr(ms[k].id)]]>>
    /\ UNCHANGED <<store, nextId>>

atualizar_categoria(raw, body) ==
    /\ resp' = <<>>
    /\ LET filtro == CategoriaFiltro(raw)
           i == IF DOMAIN filtro = {} THEN 0 ELSE CategoriaFindOne(filtro)
       IN  IF "nome" \in DOMAIN body /\ Len(body.nome) < MinNomeLen
           THEN /\ last' = Served("atualizar_categoria", 422, <<raw>>, 0, 0)
                /\ UNCHANGED store
           ELSE IF DOMAIN filtro = {}
           THEN /\ last' = Served("atualizar_categoria", 400, <<raw>>, 0, 0)
                /\ UNCHANGED store
           ELSE IF i = 0
           THEN /\ last' = Served("atualizar_categoria", 404, <<raw>>, 0, 0)
                /\ UNCHANGED store
           ELSE IF CategoriaIdDuplicado(body.categoria_id, i)
           THEN \* update_one fails on the unique index, nothing catches it
                /\ last' = Served("atualizar_categoria", 500, <<raw>>, categorias[i]._id, 0)
                /\ UNCHANGED store
           ELSE \* update_one(filtro, {"$set": body})
                /\ categorias' = [categorias EXCEPT ![i] =
                       [f \in DOMAIN @ |-> IF f \in DOMAIN body THEN body[f] ELSE @[f]]]
                /\ last' = Served("atualizar_categoria", 200, <<raw>>, categorias[i]._id, 0)
                /\ UNCHANGED <<pessoas, memorias, grupos>>
    /\ UNCHANGED nextId

excluir_categoria(raw) ==
    /\ resp' = <<>>
    /\ LET filtro == CategoriaFiltro(raw)
           i == IF DOMAIN filtro = {} THEN 0 ELSE CategoriaFindOne(filtro)
       IN  IF DOMAIN filtro = {}
           THEN /\ last' = Served("excluir_categoria", 400, <<raw>>, 0, 0)
                /\ UNCHANGED store
           ELSE IF i = 0
           THEN /\ last' = Served("excluir_categoria", 404, <<raw>>, 0, 0)
                /\ UNCHANGED store
           ELSE IF MemoriasAssociadas(categorias[i].id) # <<>>
           THEN /\ last' = Served("excluir_categoria", 400, <<raw>>, categorias[i]._id, 0)
                /\ UNCHANGED store
           ELSE /\ categorias' = RemoveAt(categorias, i)
                /\ last' = Served("excluir_categoria", 200, <<raw>>, categorias[i]._id, 0)
                /\ UNCHANGED <<pessoas, memorias, grupos>>
    /\ UNCHANGED nextId

-----------------------------------------------------------------------------
(* routers/grupo.py *)

\* Grupo.get(id) when the path value is an ObjectId, else
\* Grupo.find_one({"nome": raw}); position of the Group, 0 for None
ResolveGrupo(raw) ==
    IF ObjectIdIsValid(raw)
    THEN LET oid == ParseOid(raw) IN FirstIdx(grupos, LAMBDA g : g.id = oid)
    ELSE FirstIdx(grupos, LAMBDA g : g.nome = raw)

\* Pessoa.get(id) when the path value is an ObjectId, else
\* Pessoa.find_one({"nome": raw})
ResolvePessoaDoGrupo(raw) ==
    IF ObjectIdIsValid(raw)
    THEN LET oid == ParseOid(raw) IN PessoaGet(oid)
    ELSE PessoaFindOneNome(raw)

\* Memoria.find(Memoria.pessoa.id == pessoa.id)
MemoriaFindPessoaId(id) == SelectSeq(memorias, LAMBDA m : m.pessoa.id = id)

\* PessoaRef(id=str(pessoa.id), nome=pessoa.nome, memorias=[titles])
PessoaRef(p, ms) == [id |-> OidStr(p.id), nome |-> p.nome, memorias |-> TitulosDe(ms)]

\* mutant: the membership test is left out
JaNoGrupoNunca(g, p) == FALSE

\* any(p.id == str(pessoa.id) for p in grupo.pessoas)
JaNoGrupo(g, p) == \E k \in 1..Len(g.pessoas) : g.pessoas[k].id = OidStr(p.id)

\* mutant: the filter compares the member's name, not its id
SemPessoaPorNome(refs, p) == SelectSeq(refs, LAMBDA r : r.nome # p.nome)

\* [p for p in grupo.pessoas if p.id != str(pessoa.id)]
SemPessoa(refs, p) == SelectSeq(refs, LAMBDA r : r.id # OidStr(p.id))

\* mutant: a member whose Person is gone is returned without its memories
PessoaRefAtualSemMemorias(ref) ==
    LET i == PessoaGet(ParseOid(ref.id))
    IN  IF i # 0 THEN PessoaRef(pessoas[i], MemoriaFindPessoa(pessoas[i]))
        ELSE [ref EXCEPT !.memorias = <<>>]

\* one member of a Group as listar_grupos returns it
PessoaRefAtual(ref) ==
    LET i == PessoaGet(ParseOid(ref.id))
    IN  IF i # 0 THEN PessoaRef(pessoas[i], MemoriaFindPessoa(pessoas[i])) ELSE ref

GrupoRawIds ==
    {OidStr(grupos[i].id) : i \in 1..Len(grupos)} \cup NomesGrupo \cup {<<"f", "a", "m">>}

\* the ids the member snapshots of the stored Groups carry, as a client
\* that read a Group sends them back
MembroRawIds ==
    UNION {{grupos[g].pessoas[k].id : k \in 1..Len(grupos[g].pessoas)} : g \in 1..Len(grupos)}

criar_grupo(nome) ==
    /\ resp' = <<>>
    /\ IF \E k \in 1..Len(grupos) : grupos[k].nome = nome
       THEN \* create() fails on the unique index of Grupo.nome
            /\ last' = Served("criar_grupo", 500, <<>>, 0, 0)
            /\ UNCHANGED <<store, nextId>>
       ELSE /\ nextId <= MaxIds
            /\ grupos' = Append(grupos, [id |-> nextId, nome |-> nome, pessoas |-> <<>>])
            /\ nextId' = nextId + 1
            /\ last' = Served("criar_grupo", 200, <<>>, nextId, 0)
            /\ UNCHANGED <<pessoas, memorias, categorias>>

obter_grupo(raw) ==
    /\ LET i == ResolveGrupo(raw)
       IN  IF i = 0
           THEN /\ last' = Served("obter_grupo", 404, <<>>, 0, 0)
                /\ resp' = <<>>
           ELSE /\ last' = Served("obter_grupo", 200, <<>>, grupos[i].id, 0)
                /\ resp' = <<grupos[i]>>
    /\ UNCHANGED <<store, nextId>>

listar_grupos ==
    /\ resp' = [i \in 1..Len(grupos) |->
                  [grupos[i] EXCEPT !.pessoas =
                      [k \in 1..Len(grupos[i].pessoas) |-> PessoaRefAtual(grupos[i].pessoas[k])]]]
    /\ last' = Served("listar_grupos", 200, <<>>, 0, 0)
    /\ UNCHANGED <<store, nextId>>

\* one Person of a Group as listar_pessoas_e_memorias returns it (the
\* memories by their titulo; descricao is not part of the model)
PessoaEMemorias(p) ==
    LET ms == MemoriaFindPessoa(p)
    IN  [id |-> OidStr(p.id), nome |-> p.nome,
         memorias |-> [j \in 1..Len(ms) |-> [titulo |-> ms[j].titulo]]]

listar_pessoas_e_memorias(raw) ==
    /\ LET i == ResolveGrupo(raw)
       IN  IF i = 0
           THEN /\ last' = Served("listar_pessoas_e_memorias", 404, <<>>, 0, 0)
                /\ resp' = <<>>
           ELSE \* for pessoa_ref in grupo.pessoas: ... if pessoa: append
                LET achadas == SelectSeq(grupos[i].pessoas,
                                         LAMBDA r : PessoaGet(ParseOid(r.id)) # 0)
                IN  /\ resp' = [k \in 1..Len(achadas) |->
                                  PessoaEMemorias(pessoas[PessoaGet(ParseOid(achadas[k].id))])]
                    /\ last' = Served("listar_pessoas_e_memorias", 200, <<>>, grupos[i].id, 0)
    /\ UNCHANGED <<store, nextId>>

deletar_grupo(raw) ==
    /\ resp' = <<>>
    /\ LET i == ResolveGrupo(raw)
       IN  IF i = 0
           THEN /\ last' = Served("deletar_grupo", 404, <<>>, 0, 0)
                /\ UNCHANGED store
           ELSE /\ grupos' = RemoveAt(grupos, i)
                /\ last' = Served("deletar_grupo", 200, <<>>, grupos[i].id, 0)
                /\ UNCHANGED <<pessoas, memorias, categorias>>
    /\ UNCHANGED nextId

adicionar_pessoa(rawG, rawP) ==
    /\ resp' = <<>>
    /\ LET g == ResolveGrupo(rawG)
           p == ResolvePessoaDoGrupo(rawP)
       IN  IF g = 0 \/ p = 0
           THEN /\ last' = Served("adicionar_pessoa", 404, <<>>, IdDe(grupos, g), IdDe(pessoas, p))
                /\ UNCHANGED store
           ELSE /\ last' = Served("adicionar_pessoa", 200, <<>>, grupos[g].id, pessoas[p].id)
                /\ IF ~JaNoGrupo(grupos[g], pessoas[p])
                   THEN grupos' = [grupos EXCEPT ![g].pessoas =
                            Append(@, PessoaRef(pessoas[p], MemoriaFindPessoaId(pessoas[p].id)))]
                   ELSE UNCHANGED grupos
                /\ UNCHANGED <<pessoas, memorias, categorias>>
    /\ UNCHANGED nextId

\* mutant: a Person that is not found is removed from the Group by the
\* raw id of the request
remover_pessoa_por_id(rawG, rawP) ==
    /\ resp' = <<>>
    /\ LET g == ResolveGrupo(rawG)
           p == ResolvePessoaDoGrupo(rawP)
       IN  IF g = 0
           THEN /\ last' = Served("remover_pessoa", 404, <<rawP>>, 0, IdDe(pessoas, p))
                /\ UNCHANGED store
           ELSE /\ grupos' = [grupos EXCEPT ![g].pessoas =
                       SelectSeq(@, LAMBDA r : r.id # (IF p = 0 THEN rawP ELSE OidStr(pessoas[p].id)))]
                /\ last' = Served("remover_pessoa", 200, <<>>, grupos[g].id, IdDe(pessoas, p))
                /\ UNCHANGED <<pessoas, memorias, categorias>>
    /\ UNCHANGED nextId

remover_pessoa(rawG, rawP) ==
    /\ resp' = <<>>
    /\ LET g == ResolveGrupo(rawG)
           p == ResolvePessoaDoGrupo(rawP)
       IN  IF g = 0 \/ p = 0
           THEN /\ last' = Served("remover_pessoa", 404, <<rawP>>, IdDe(grupos, g), IdDe(pessoas, p))
                /\ UNCHANGED store
           ELSE /\ grupos' = [grupos EXCEPT ![g].pessoas = SemPessoa(@, pessoas[p])]
                /\ last' = Served("remover_pessoa", 200, <<>>, grupos[g].id, pessoas[p].id)
                /\ UNCHANGED <<pessoas, memorias, categorias>>
    /\ UNCHANGED nextId

-----------------------------------------------------------------------------
(* One request at a time, every handler atomic.  Each handler is one       *)
(* disjunct, named after it.                                               *)

CriarPessoa ==
    /\ \E n \in NomesPessoa, d \in Datas : criar_pessoa(n, d)
    /\ UNCHANGED pend

ListarPessoas ==
    /\ \E skip \in {0, 1} : listar_pessoas(DefaultLimit, skip)
    /\ UNCHANGED pend

ObterPessoa ==
    /\ \E raw \in PessoaRawIds : obter_pessoa(raw)
    /\ UNCHANGED pend

AtualizarPessoa ==
    /\ \E raw \in PessoaRawIds, n \in NomesPessoa, d \in Datas : atualizar_pessoa(raw, n, d)
    /\ UNCHANGED pend

ExcluirPessoa ==
    /\ \E raw \in PessoaRawIds : excluir_pessoa(raw)
    /\ UNCHANGED pend

CriarMemoria ==
    /\ \E t \in Titulos, p \in PessoaBodies \cup {None}, c \in CategoriaBodies \cup {None} :
       criar_memoria(t, p, c)
    /\ UNCHANGED pend

\* criar_memoria with one title, where the claims do not read titles
CriarMemoriaT1 ==
    /\ \E p \in PessoaBodies \cup {None}, c \in CategoriaBodies \cup {None} :
       criar_memoria("t1", p, c)
    /\ UNCHANGED pend

AtualizarMemoria ==
    /\ \E raw \in RawOids(memorias) \cup {<<"x">>}, t \in Titulos, p \in PessoaBodies \cup {None},
       c \in CategoriaBodies \cup {None} : atualizar_memoria(raw, t, p, c)
    /\ UNCHANGED pend

ExcluirMemoria ==
    /\ \E raw \in RawOids(memorias) \cup {<<"x">>} : excluir_memoria(raw)
    /\ UNCHANGED pend

CriarCategoria ==
    /\ \E c \in CategoriaCorpos : criar_categoria(c)
    /\ UNCHANGED pend

\* criar_categoria with one name, where the claims do not read names
CriarCategoriaVia ==
    /\ \E c \in {b \in CategoriaCorpos : b.nome = <<"V", "i", "a">>} : criar_categoria(c)
    /\ UNCHANGED pend

ObterCategoria ==
    /\ \E raw \in CategoriaRawIds : obter_categoria(raw)
    /\ UNCHANGED pend

AtualizarCategoria ==
    /\ \E raw \in CategoriaRawIds, b \in CategoriaUpdates : atualizar_categoria(raw, b)
    /\ UNCHANGED pend

ExcluirCategoria ==
    /\ \E raw \in CategoriaRawIds : excluir_categoria(raw)
    /\ UNCHANGED pend

CriarGrupo ==
    /\ \E n \in NomesGrupo : criar_grupo(n)
    /\ UNCHANGED pend

ObterGrupo ==
    /\ \E raw \in GrupoRawIds : obter_grupo(raw)
    /\ UNCHANGED pend

DeletarGrupo ==
    /\ \E raw \in GrupoRawIds : deletar_grupo(raw)
    /\ UNCHANGED pend

AdicionarPessoa ==
    /\ \E rawG \in GrupoRawIds, rawP \in PessoaRawIds : adicionar_pessoa(rawG, rawP)
    /\ UNCHANGED pend

RemoverPessoa ==
    /\ \E rawG \in GrupoRawIds, rawP \in PessoaRawIds : remover_pessoa(rawG, rawP)
    /\ UNCHANGED pend

\* remover_pessoa called with the id a member snapshot carries
RemoverMembro ==
    /\ \E rawG \in GrupoRawIds, rawP \in MembroRawIds : remover_pessoa(rawG, rawP)
    /\ UNCHANGED pend

ListarGrupos == listar_grupos /\ UNCHANGED pend

ListarPessoasEMemorias ==
    /\ \E raw \in GrupoRawIds : listar_pessoas_e_memorias(raw)
    /\ UNCHANGED pend

ListarMemoriasPorPessoa ==
    /\ \E raw \in PessoaRawIds \cup {[i \in 1..OidLen |-> "z"]} : listar_memorias_por_pessoa(raw)
    /\ UNCHANGED pend

-----------------------------------------------------------------------------
(* Requests in flight: a handler awaits the store between its statements, *)
(* and the requests of other clients are served in between.  A handler    *)
(* that is split here runs from one await to the next in each step, and   *)
(* pend holds what the handler keeps in its local variables.              *)

\* routers/pessoa.py criar_pessoa up to the pre-check (line 20)
criar_pessoa_verifica(c, nome, nasc) ==
    /\ pend[c] = Idle
    /\ IF PessoaFindOneNome(nome) # 0
       THEN /\ last' = Served("criar_pessoa", 400, <<nome>>, 0, 0)
            /\ resp' = <<>>
            /\ UNCHANGED pend
       ELSE /\ pend' = [pend EXCEPT ![c] =
                           [op |-> "criar_pessoa", nome |-> nome, nasc |-> nasc]]
            /\ UNCHANGED <<last, resp>>
    /\ UNCHANGED <<store, nextId>>

\* routers/pessoa.py criar_pessoa from pessoa.insert() (line 30): the
\* unique index decides, and nothing catches its refusal
criar_pessoa_insere(c) ==
    /\ pend[c].op = "criar_pessoa"
    /\ pend' = [pend EXCEPT ![c] = Idle]
    /\ resp' = <<>>
    /\ IF PessoaNomeDuplicado(pend[c].nome, 0)
       THEN /\ last' = Served("criar_pessoa", 500, <<pend[c].nome>>, 0, 0)
            /\ UNCHANGED <<store, nextId>>
       ELSE /\ nextId <= MaxIds
            /\ pessoas' = Append(pessoas,
                   [id |-> nextId, nome |-> pend[c].nome,
                    data_nascimento |-> pend[c].nasc, memorias |-> <<>>])
            /\ nextId' = nextId + 1
            /\ last' = Served("criar_pessoa", 200, <<pend[c].nome>>, nextId, 0)
            /\ UNCHANGED <<memorias, categorias, grupos>>

\* routers/categoria.py criar_categoria up to the checks (lines 19-24)
criar_categoria_verifica(c, categoria) ==
    /\ pend[c] = Idle
    /\ IF CategoriaFindOne([id |-> categoria.id]) # 0
       THEN /\ last' = Served("criar_categoria", 400, <<categoria.categoria_id, categoria.nome>>, 0, 0)
            /\ resp' = <<>>
            /\ UNCHANGED pend
       ELSE IF Len(categoria.nome) < MinNomeLen
       THEN /\ last' = Served("criar_categoria", 422, <<categoria.categoria_id, categoria.nome>>, 0, 0)
            /\ resp' = <<>>
            /\ UNCHANGED pend
       ELSE /\ pend' = [pend EXCEPT ![c] = [op |-> "criar_categoria", categoria |-> categoria]]
            /\ UNCHANGED <<last, resp>>
    /\ UNCHANGED <<store, nextId>>

\* routers/categoria.py criar_categoria from insert_one (line 27)
criar_categoria_insere(c) ==
    /\ pend[c].op = "criar_categoria"
    /\ pend' = [pend EXCEPT ![c] = Idle]
    /\ resp' = <<>>
    /\ LET categoria == pend[c].categoria
       IN  IF CategoriaIdDuplicado(categoria.categoria_id, 0)
           THEN /\ last' = Served("criar_categoria", 500, <<categoria.categoria_id, categoria.nome>>, 0, 0)
                /\ UNCHANGED <<store, nextId>>
           ELSE /\ nextId <= MaxIds
                /\ categorias' = Append(categorias,
                       [_id |-> nextId, id |-> categoria.id,
                        categoria_id |-> categoria.categoria_id, nome |-> categoria.nome])
                /\ nextId' = nextId + 1
                /\ last' = Served("criar_categoria", 200, <<categoria.categoria_id, categoria.nome>>, nextId, 0)
                /\ UNCHANGED <<pessoas, memorias, grupos>>

\* routers/pessoa.py excluir_pessoa up to the delete of the Memories
\* (lines 109-119)
excluir_pessoa_memorias(c, raw) ==
    /\ pend[c] = Idle
    /\ LET i == ResolvePessoa(raw)
       IN  IF i = 0
           THEN /\ last' = Served("excluir_pessoa", 404, <<>>, 0, 0)
                /\ resp' = <<>>
                /\ UNCHANGED <<store, pend>>
           ELSE /\ memorias' = SelectSeq(memorias, LAMBDA m : m.pessoa # pessoas[i])
                /\ pend' = [pend EXCEPT ![c] = [op |-> "excluir_pessoa", pessoa |-> pessoas[i]]]
                /\ UNCHANGED <<pessoas, categorias, grupos, last, resp>>
    /\ UNCHANGED nextId

\* routers/pessoa.py excluir_pessoa at pessoa.delete() (line 121), the
\* store failing: the error is not caught, the Person stays
excluir_pessoa_falha(c) ==
    /\ pend[c].op = "excluir_pessoa"
    /\ pend' = [pend EXCEPT ![c] = Idle]
    /\ last' = Served("excluir_pessoa", 500, <<>>, pend[c].pessoa.id, 0)
    /\ resp' = <<>>
    /\ UNCHANGED <<store, nextId>>

\* routers/pessoa.py excluir_pessoa from pessoa.delete() (lines 121-122):
\* the document of that id is deleted, if it is still there
excluir_pessoa_exclui(c) ==
    /\ pend[c].op = "excluir_pessoa"
    /\ pend' = [pend EXCEPT ![c] = Idle]
    /\ pessoas' = SelectSeq(pessoas, LAMBDA p : p.id # pend[c].pessoa.id)
    /\ last' = Served("excluir_pessoa", 200, <<>>, pend[c].pessoa.id, 0)
    /\ resp' = <<>>
    /\ UNCHANGED <<memorias, categorias, grupos, nextId>>

ExcluirPessoaMemorias ==
    \E c \in Clientes, raw \in PessoaRawIds : excluir_pessoa_memorias(c, raw)

ExcluirPessoaFalha == \E c \in Clientes : excluir_pessoa_falha(c)

ExcluirPessoaExclui == \E c \in Clientes : excluir_pessoa_exclui(c)

\* routers/grupo.py adicionar_pessoa up to the 404 check (lines 123-135):
\* the Group and the Person are read into the handler's variables
adicionar_pessoa_le(c, rawG, rawP) ==
    /\ pend[c] = Idle
    /\ LET g == ResolveGrupo(rawG)
           p == ResolvePessoaDoGrupo(rawP)
       IN  IF g = 0 \/ p = 0
           THEN /\ last' = Served("adicionar_pessoa", 404, <<>>, IdDe(grupos, g), IdDe(pessoas, p))
                /\ resp' = <<>>
                /\ UNCHANGED pend
           ELSE /\ pend' = [pend EXCEPT ![c] =
                       [op |-> "adicionar_pessoa", grupo |-> grupos[g], pessoa |-> pessoas[p]]]
                /\ UNCHANGED <<last, resp>>
    /\ UNCHANGED <<store, nextId>>

\* Document.save(): the whole document as the handler holds it is written
\* over the stored one of its id (inserted when there is none)
GrupoSave(doc) ==
    LET g == FirstIdx(grupos, LAMBDA d : d.id = doc.id)
    IN  IF g = 0 THEN Append(grupos, doc) ELSE [grupos EXCEPT ![g] = doc]

\* routers/grupo.py adicionar_pessoa from the membership test (lines
\* 137-151): the test and the append work on the copy read before
adicionar_pessoa_salva(c) ==
    /\ pend[c].op = "adicionar_pessoa"
    /\ pend' = [pend EXCEPT ![c] = Idle]
    /\ resp' = <<>>
    /\ LET grupo == pend[c].grupo
           pessoa == pend[c].pessoa
       IN  /\ last' = Served("adicionar_pessoa", 200, <<>>, grupo.id, pessoa.id)
           /\ IF ~JaNoGrupo(grupo, pessoa)
              THEN grupos' = GrupoSave([grupo EXCEPT !.pessoas =
                       Append(@, PessoaRef(pessoa, MemoriaFindPessoaId(pessoa.id)))])
              ELSE UNCHANGED grupos
    /\ UNCHANGED <<pessoas, memorias, categorias, nextId>>

AdicionarPessoaLe ==
    \E c \in Clientes, rawG \in GrupoRawIds, rawP \in PessoaRawIds :
        adicionar_pessoa_le(c, rawG, rawP)

AdicionarPessoaSalva == \E c \in Clientes : adicionar_pessoa_salva(c)

\* routers/memoria.py criar_memoria up to the existence checks (lines
\* 23-27)
criar_memoria_verifica(c, titulo, pessoa, categoria) ==
    /\ pend[c] = Idle
    /\ IF \/ pessoa # None /\ PessoaGet(pessoa.id) = 0
          \/ categoria # None /\ CategoriaGet(categoria.id) = 0
       THEN /\ last' = Served("criar_memoria", 400, <<pessoa.id, categoria.id>>, 0, 0)
            /\ resp' = <<>>
            /\ UNCHANGED pend
       ELSE /\ pend' = [pend EXCEPT ![c] =
                           [op |-> "criar_memoria", titulo |-> titulo,
                            pessoa |-> pessoa, categoria |-> categoria]]
            /\ UNCHANGED <<last, resp>>
    /\ UNCHANGED <<store, nextId>>

\* routers/memoria.py criar_memoria from memoria.insert() (lines 29-30)
criar_memoria_insere(c) ==
    /\ pend[c].op = "criar_memoria"
    /\ nextId <= MaxIds
    /\ pend' = [pend EXCEPT ![c] = Idle]
    /\ resp' = <<>>
    /\ memorias' = Append(memorias,
           [id |-> nextId, titulo |-> pend[c].titulo,
            categoria |-> pend[c].categoria, pessoa |-> pend[c].pessoa])
    /\ nextId' = nextId + 1
    /\ last' = Served("criar_memoria", 200, <<pend[c].pessoa.id, pend[c].categoria.id>>, nextId, 0)
    /\ UNCHANGED <<pessoas, categorias, grupos>>

CriarMemoriaVerifica ==
    \E c \in Clientes, t \in Titulos, p \in PessoaBodies \cup {None} :
        criar_memoria_verifica(c, t, p, None)

CriarMemoriaInsere == \E c \in Clientes : criar_memoria_insere(c)

CriarPessoaVerifica ==
    \E c \in Clientes, n \in NomesPessoa, d \in Datas : criar_pessoa_verifica(c, n, d)

CriarPessoaInsere == \E c \in Clientes : criar_pessoa_insere(c)

CriarCategoriaVerifica ==
    \E c \in Clientes, b \in CategoriaCorpos : criar_categoria_verifica(c, b)

CriarCategoriaInsere == \E c \in Clientes : criar_categoria_insere(c)


\* the whole API
Next ==
    \/ CriarPessoa \/ ListarPessoas \/ ObterPessoa \/ AtualizarPessoa \/ ExcluirPessoa
    \/ CriarMemoria \/ AtualizarMemoria \/ ExcluirMemoria \/ ListarMemoriasPorPessoa
    \/ CriarCategoria \/ ObterCategoria \/ AtualizarCategoria \/ ExcluirCategoria
    \/ CriarGrupo \/ ObterGrupo \/ ListarGrupos \/ DeletarGrupo
    \/ AdicionarPessoa \/ RemoverPessoa \/ ListarPessoasEMemorias

Spec == Init /\ [][Next]_vars

(* The claims are checked on slices of the API.  A slice holds the handler *)
(* a claim is about and every handler that writes what that handler reads  *)
(* to decide; the handlers left out write nothing the slice's claims read. *)

\* People and their Memories: every handler that writes pessoas, the reads
\* of People, and the creation and deletion of Memories.
NextPessoa ==
    \/ CriarPessoa \/ ListarPessoas \/ ObterPessoa \/ AtualizarPessoa \/ ExcluirPessoa
    \/ CriarMemoria \/ ExcluirMemoria

SpecPessoa == Init /\ [][NextPessoa]_vars

\* Group membership: every handler that writes grupos, the materializing
\* read, the creation and deletion of the People the routes resolve and
\* the creation of the Memories a snapshot lists.  (A rename changes only
\* nome, which these routes use to resolve a raw name and nothing else.)
NextGrupo ==
    \/ CriarGrupo \/ ListarGrupos \/ DeletarGrupo
    \/ AdicionarPessoa \/ RemoverPessoa
    \/ CriarPessoa \/ ExcluirPessoa
    \/ CriarMemoriaT1

SpecGrupo == Init /\ [][NextGrupo]_vars

\* Categories: every handler that writes categorias, and the read by
\* identifier.
NextCategoria ==
    \/ CriarCategoria \/ ObterCategoria \/ AtualizarCategoria \/ ExcluirCategoria

SpecCategoria == Init /\ [][NextCategoria]_vars

\* Creation of Memories: criar_memoria and the handlers that create and
\* delete the People and Categories a Memory body refers to.
NextMemoria ==
    \/ CriarMemoriaT1
    \/ CriarPessoa \/ ExcluirPessoa
    \/ CriarCategoriaVia \/ ExcluirCategoria

SpecMemoria == Init /\ [][NextMemoria]_vars

\* Creations in flight: two clients create Persons and Categories, each
\* request interleaved with the other's between its check and its insert.
NextCorridaCriar ==
    \/ CriarPessoaVerifica \/ CriarPessoaInsere
    \/ CriarCategoriaVerifica \/ CriarCategoriaInsere

SpecCorridaCriar == Init /\ [][NextCorridaCriar]_vars

\* Deletions of Persons in flight: a delete may stop between the delete of
\* the Memories and the delete of the Person, and is then repeated.
NextExcluirParcial ==
    \/ CriarPessoa \/ CriarMemoriaT1 \/ AtualizarPessoa
    \/ ExcluirPessoaMemorias \/ ExcluirPessoaFalha \/ ExcluirPessoaExclui
    \/ ExcluirPessoa

SpecExcluirParcial == Init /\ [][NextExcluirParcial]_vars

\* Members of Groups and their Persons: the read of the members of a Group,
\* and the handlers that create and delete what it reads.
NextGrupoMembros ==
    \/ CriarGrupo \/ CriarPessoa \/ CriarMemoriaT1
    \/ AdicionarPessoa \/ ExcluirPessoa
    \/ ListarPessoasEMemorias

SpecGrupoMembros == Init /\ [][NextGrupoMembros]_vars

\* Additions to Groups in flight: two clients add Persons to Groups, each
\* request interleaved with the other's between its reads and its save.
\* Nothing in this slice removes a member or deletes a Group.
NextCorridaGrupo ==
    \/ CriarGrupo \/ CriarPessoa
    \/ AdicionarPessoaLe \/ AdicionarPessoaSalva

SpecCorridaGrupo == Init /\ [][NextCorridaGrupo]_vars

\* Group membership and absent entities: the two handlers that change the
\* members of a Group, and the handlers that create and delete the Groups'
\* Persons.
NextGrupoAusente ==
    \/ CriarGrupo \/ CriarPessoa \/ ExcluirPessoa
    \/ AdicionarPessoa \/ RemoverPessoa \/ RemoverMembro

SpecGrupoAusente == Init /\ [][NextGrupoAusente]_vars

\* Memories in flight: two clients create Memories of Persons, each request
\* interleaved with the other requests between its checks and its insert,
\* while Persons are created and deleted.  Nothing in this slice renames a
\* Person.
NextCorridaMemoria ==
    \/ CriarPessoa \/ ExcluirPessoa
    \/ CriarMemoriaVerifica \/ CriarMemoriaInsere

SpecCorridaMemoria == Init /\ [][NextCorridaMemoria]_vars

\* Resolution of names: every handler that takes a Person or a Group by
\* name, called with names, and the handlers that create what they resolve
\* and read.
NomesGrupoRaw == NomesGrupo \cup {<<"f", "a", "m">>}

ObterPessoaPorNome ==
    /\ \E raw \in NomesPessoa : obter_pessoa(raw)
    /\ UNCHANGED pend

AtualizarPessoaPorNome ==
    /\ \E raw \in NomesPessoa, nome \in NomesPessoa, nasc \in Datas :
            atualizar_pessoa(raw, nome, nasc)
    /\ UNCHANGED pend

ExcluirPessoaPorNome ==
    /\ \E raw \in NomesPessoa : excluir_pessoa(raw)
    /\ UNCHANGED pend

ListarMemoriasPorNome ==
    /\ \E raw \in NomesPessoa : listar_memorias_por_pessoa(raw)
    /\ UNCHANGED pend

ObterGrupoPorNome ==
    /\ \E raw \in NomesGrupoRaw : obter_grupo(raw)
    /\ UNCHANGED pend

DeletarGrupoPorNome ==
    /\ \E raw \in NomesGrupoRaw : deletar_grupo(raw)
    /\ UNCHANGED pend

AdicionarPessoaPorNome ==
    /\ \E rawG \in NomesGrupoRaw, rawP \in NomesPessoa : adicionar_pessoa(rawG, rawP)
    /\ UNCHANGED pend

RemoverPessoaPorNome ==
    /\ \E rawG \in NomesGrupoRaw, rawP \in NomesPessoa : remover_pessoa(rawG, rawP)
    /\ UNCHANGED pend

NextNomes ==
    \/ CriarPessoa \/ CriarGrupo \/ CriarMemoriaT1
    \/ ObterPessoaPorNome \/ AtualizarPessoaPorNome \/ ExcluirPessoaPorNome
    \/ ObterGrupoPorNome \/ DeletarGrupoPorNome
    \/ AdicionarPessoaPorNome \/ RemoverPessoaPorNome
    \/ ListarMemoriasPorNome

SpecNomes == Init /\ [][NextNomes]_vars

\* Reads of Groups: both reads of a Group, and the handlers that create
\* Groups, members and the Memories of the members.
NextGrupoLeitura ==
    \/ CriarGrupo \/ CriarPessoa \/ CriarMemoriaT1 \/ AdicionarPessoa
    \/ ObterGrupo \/ ListarGrupos

SpecGrupoLeitura == Init /\ [][NextGrupoLeitura]_vars

-----------------------------------------------------------------------------
(* Claims about People and their Memories (SpecPessoa) *)

\* the titles of the stored Memories whose person reference is the Person
\* with this id, in insertion order
TitulosPorId(id) == TitulosDe(SelectSeq(memorias, LAMBDA m : m.pessoa.id = id))

\* C1: every Person returned by obter_pessoa or listar_pessoas carries as
\* memorias exactly the titles of the stored Memories that refer to that
\* Person, in insertion order, whatever creates, renames and deletes came
\* before the read.
C1_MemoriasDaPessoaLida ==
    (last.op \in {"obter_pessoa", "listar_pessoas"} /\ last.status = 200)
        => \A k \in 1..Len(resp) : resp[k].memorias = TitulosPorId(resp[k].id)

\* C6: once excluir_pessoa(P) has answered success, P is no longer stored,
\* no stored Memory refers to P, and P's identifier resolves to nothing (a
\* second delete answers 404).
C6_ExcluirPessoaLevaMemorias ==
    (last.op = "excluir_pessoa" /\ last.status = 200)
        => /\ \A i \in 1..Len(pessoas) : pessoas[i].id # last.id
           /\ \A k \in 1..Len(memorias) : memorias[k].pessoa.id # last.id
           /\ ResolvePessoa(OidStr(last.id)) = 0

\* C9 as stated: no two stored Persons have names that are equal when
\* compared case-insensitively.
C9_NomesUnicosSemCaixa ==
    \A i, j \in 1..Len(pessoas) :
        i # j => Lower(pessoas[i].nome) # Lower(pessoas[j].nome)

\* C9 amended: no two stored Persons have the same name, compared exactly
\* (case-sensitively); criar_pessoa with a stored name answers 400, and
\* atualizar_pessoa renaming a Person to the name of another stored Person
\* fails, both leaving the store as it was.
C9_NomesUnicosExatos ==
    [][ /\ \A i, j \in 1..Len(pessoas') : i # j => pessoas'[i].nome # pessoas'[j].nome
        /\ (/\ last'.op = "criar_pessoa"
            /\ \E i \in 1..Len(pessoas) : pessoas[i].nome = last'.req[1])
              => (last'.status = 400 /\ store' = store)
        /\ (/\ last'.op = "atualizar_pessoa"
            /\ last'.id # 0
            /\ \E i \in 1..Len(pessoas) :
                  pessoas[i].id # last'.id /\ pessoas[i].nome = last'.req[1])
              => (last'.status # 200 /\ store' = store)
      ]_vars

\* C9 witness: a rename to the name of another stored Person was refused.
C9_RenomeacaoRecusada ==
    /\ last.op = "atualizar_pessoa"
    /\ last.status = 500
    /\ Len(pessoas) >= 2

-----------------------------------------------------------------------------
(* Claims about Group membership (SpecGrupo) *)

\* position in col of the document with this id, 0 when it is not stored
PosDoId(col, id) == FirstIdx(col, LAMBDA d : d.id = id)

RECURSIVE SemId(_, _)
\* the member list without the entries of one person_id, the rest in order
SemId(refs, id) ==
    IF refs = <<>> THEN <<>>
    ELSE IF Head(refs).id = id THEN SemId(Tail(refs), id)
    ELSE <<Head(refs)>> \o SemId(Tail(refs), id)

-----------------------------------------------------------------------------
(* Claims about Categories (SpecCategoria) *)

\* C7: for every stored Category C, a criar_categoria whose body has the
\* categoria_id of C, or a name that differs from the name of C only in
\* letter case, is answered 400 and inserts no Category.
C7_CriarCategoriaConflito ==
    [][(/\ last'.op = "criar_categoria"
        /\ \E k \in 1..Len(categorias) :
              \/ categorias[k].categoria_id = last'.req[1]
              \/ /\ Lower(categorias[k].nome) = Lower(last'.req[2])
                 /\ categorias[k].nome # last'.req[2])
          => /\ last'.status = 400
             /\ categorias' = categorias]_vars

\* C8: obter_categoria, atualizar_categoria and excluir_categoria look a raw
\* identifier of 24 hexadecimal characters up by _id only, and a raw
\* identifier that is not of that form and is all digits by
\* categoria_id = int(raw): the Category they resolve is the one stored
\* under that key, none when there is none.
C8_ResolucaoDoIdentificador ==
    [][(/\ last'.op \in {"obter_categoria", "atualizar_categoria", "excluir_categoria"}
        /\ last'.status # 422)
          => LET raw == last'.req[1]
                 porNumero == {categorias[k]._id : k \in
                                  {j \in 1..Len(categorias) :
                                      categorias[j].categoria_id = StrToInt(raw)}}
             IN  IF ObjectIdIsValid(raw)
                 THEN LET i == CategoriaGet(ParseOid(raw))
                      IN  last'.id = IF i = 0 THEN 0 ELSE categorias[i]._id
                 ELSE IsDigit(raw)
                        => IF porNumero = {} THEN last'.id = 0 ELSE last'.id \in porNumero]_vars

-----------------------------------------------------------------------------
(* Claims about Memories and the entities they refer to (SpecMemoria) *)

\* the stored Memories whose embedded category has this _id
MemoriasDaCategoria(oid) == {k \in 1..Len(memorias) : memorias[k].categoria.id = oid}

\* C5: excluir_categoria of a Category that 2 Memories refer to succeeds,
\* afterwards no stored Memory refers to it and the Category is gone; the
\* same delete, repeated right after a successful one, is answered 404.
C5_ExcluirCategoriaCascata ==
    [][/\ (/\ last'.op = "excluir_categoria"
           /\ last'.id # 0
           /\ Cardinality(MemoriasDaCategoria(last'.id)) = 2)
             => /\ last'.status = 200
                /\ \A k \in 1..Len(memorias') : memorias'[k].categoria.id # last'.id
                /\ \A i \in 1..Len(categorias') : categorias'[i]._id # last'.id
       /\ (/\ last'.op = "excluir_categoria"
           /\ last.op = "excluir_categoria"
           /\ last.status = 200
           /\ last'.req = last.req)
             => last'.status = 404]_vars

\* a reference of a criar_memoria body (the id of the embedded document,
\* 0 when the body has none) that resolves to no stored entity
PessoaAusente(id) == id # 0 /\ PessoaGet(id) = 0

CategoriaAusente(id) == id # 0 /\ CategoriaGet(id) = 0

\* C10 as stated: a criar_memoria whose person or category reference
\* resolves to no stored entity is answered 404 and inserts no Memory.
C10_ReferenciaAusente404 ==
    [][(/\ last'.op = "criar_memoria"
        /\ (PessoaAusente(last'.req[1]) \/ CategoriaAusente(last'.req[2])))
          => /\ last'.status = 404
             /\ memorias' = memorias]_vars

\* C10 amended: a criar_memoria whose person or category reference
\* resolves to no stored entity is answered 400 and inserts no Memory; a
\* Memory is inserted only when every reference of the body resolves to an
\* entity stored at that moment.
C10_ReferenciaAusente400 ==
    [][last'.op = "criar_memoria"
          => /\ (PessoaAusente(last'.req[1]) \/ CategoriaAusente(last'.req[2]))
                  => /\ last'.status = 400
                     /\ memorias' = memorias
             /\ memorias' # memorias
                  => /\ ~PessoaAusente(last'.req[1])
                     /\ ~CategoriaAusente(last'.req[2])
                     /\ last'.status = 200]_vars

\* C10 witness: a criar_memoria whose person is stored and whose category
\* is not was just refused.
C10_CategoriaAusenteRecusada ==
    /\ last.op = "criar_memoria"
    /\ last.status = 400
    /\ last.req[1] # 0
    /\ ~PessoaAusente(last.req[1])
    /\ CategoriaAusente(last.req[2])

-----------------------------------------------------------------------------
(* Claims about the reads of Groups (SpecGrupoLeitura) *)

\* C11: obter_grupo and listar_grupos return, for every member whose Person
\* is stored, as memorias the titles of the Memories that refer to that
\* Person now, not those captured when the member was added.
C11_LeituraDoGrupoAtual ==
    (last.op \in {"obter_grupo", "listar_grupos"} /\ last.status = 200)
        => \A g \in 1..Len(resp) : \A k \in 1..Len(resp[g].pessoas) :
              LET id == ParseOid(resp[g].pessoas[k].id)
              IN  PessoaGet(id) # 0 => resp[g].pessoas[k].memorias = TitulosPorId(id)

-----------------------------------------------------------------------------
(* Claims about the deletion of referenced Categories (SpecMemoria) *)

\* C12: excluir_categoria on a Category that at least one stored Memory
\* refers to is answered 400 and leaves the Category and every Memory
\* unchanged; a Category is deleted only when no Memory refers to it.
C12_ExcluirCategoriaBloqueada ==
    [][(/\ last'.op = "excluir_categoria"
        /\ last'.id # 0
        /\ MemoriasDaCategoria(last'.id) # {})
          => /\ last'.status = 400
             /\ categorias' = categorias
             /\ memorias' = memorias]_vars

-----------------------------------------------------------------------------
(* Claims about the resolution of names (SpecNomes) *)

\* the ids of the stored documents of col whose name is raw, exactly
ComNome(col, raw) == {col[i].id : i \in {j \in 1..Len(col) : col[j].nome = raw}}

\* the ids of the stored documents of col whose name is raw up to letter case
ComNomeSemCaixa(col, raw) ==
    {col[i].id : i \in {j \in 1..Len(col) : Lower(col[j].nome) = Lower(raw)}}

\* id is the resolution of a name among the candidates ids: one of them,
\* none (0) when there is no candidate
ResolvidoEm(id, ids) == IF ids = {} THEN id = 0 ELSE id \in ids

\* the handlers that take a Person, a Group, or both by name
OpsPessoaPorNome ==
    {"obter_pessoa", "atualizar_pessoa", "excluir_pessoa", "listar_memorias_por_pessoa"}
OpsGrupoPorNome == {"obter_grupo", "deletar_grupo"}
OpsMembroPorNome == {"adicionar_pessoa", "remover_pessoa"}

-----------------------------------------------------------------------------
(* Claims about creations in flight (SpecCorridaCriar) *)

\* C14 as stated: a criar_pessoa whose pre-check passed and whose name is
\* stored by the time it inserts, and a criar_categoria likewise with its
\* categoria_id, is answered 400 and stores nothing.
C14_PerdedorRecebe400 ==
    [][\A c \in Clientes :
          /\ (/\ pend[c].op = "criar_pessoa"
              /\ pend'[c] = Idle
              /\ ComNome(pessoas, pend[c].nome) # {})
                => /\ last'.status = 400
                   /\ pessoas' = pessoas
          /\ (/\ pend[c].op = "criar_categoria"
              /\ pend'[c] = Idle
              /\ CategoriaIdDuplicado(pend[c].categoria.categoria_id, 0))
                => /\ last'.status = 400
                   /\ categorias' = categorias]_vars

-----------------------------------------------------------------------------
(* Claims about deletions of Persons in flight (SpecExcluirParcial) *)

\* C15 as stated: after an excluir_pessoa of Person P that stopped between
\* the delete of P's Memories and the delete of P, P is still stored, and
\* the same excluir_pessoa repeated succeeds and leaves P absent and no
\* Memory referencing P.
C15_RepeticaoSegura ==
    [][(/\ last.op = "excluir_pessoa"
        /\ last.status = 500
        /\ PessoaGet(last.id) # 0
        /\ excluir_pessoa(OidStr(last.id)))
          => /\ last'.status = 200
             /\ \A k \in 1..Len(pessoas') : pessoas'[k].id # last.id
             /\ \A k \in 1..Len(memorias') : memorias'[k].pessoa.id # last.id]_vars

-----------------------------------------------------------------------------
(* Claims about the business id of Categories (SpecCategoria) *)

-----------------------------------------------------------------------------
(* Claims about the members of a Group (SpecGrupoMembros) *)

\* C17 as stated: listar_pessoas_e_memorias answers with one entry for
\* every member snapshot stored in the Group, the members whose Person is
\* no longer stored included.
C17_UmaEntradaPorMembro ==
    (last.op = "listar_pessoas_e_memorias" /\ last.status = 200)
        => Len(resp) = Len(grupos[PosDoId(grupos, last.id)].pessoas)

-----------------------------------------------------------------------------
(* Claims about additions to Groups in flight (SpecCorridaGrupo) *)

\* C18 as stated: no successful addition of a member is lost.  Where no
\* request removes a member, every member stored in a Group is still
\* stored in it after every step of every request.
C18_AdicaoNaoPerdida ==
    [][\A g \in 1..Len(grupos) : \A k \in 1..Len(grupos[g].pessoas) :
          \E j \in 1..Len(grupos'[g].pessoas) :
              grupos'[g].pessoas[j].id = grupos[g].pessoas[k].id]_vars

-----------------------------------------------------------------------------
(* Claims about absent Groups and Persons (SpecGrupoAusente) *)

\* the member snapshot ref names a Person that is no longer stored
MembroObsoleto(ref) == PessoaGet(ParseOid(ref.id)) = 0

-----------------------------------------------------------------------------
(* Claims about Memories in flight (SpecCorridaMemoria) *)

\* C20 as stated: once every request in flight has finished, no stored
\* Memory references a Person that excluir_pessoa has deleted: the Person
\* of every stored Memory that has one is stored.
C20_SemReferenciaPendente ==
    (\A c \in Clientes : pend[c] = Idle)
        => \A k \in 1..Len(memorias) :
              memorias[k].pessoa # None => PessoaGet(memorias[k].pessoa.id) # 0

====
